---------------------------- MODULE Spec2Model ----------------------------
(***************************************************************************)
(* Model of src/Github-Analyzer/src/components/GithubInputPage.jsx: the    *)
(* GithubInputPage component's analysis orchestrator (handleAnalyze), the  *)
(* timed fetch wrapper, the response error extractor, the log sanitizer    *)
(* and the derived career actions.                                         *)
(*                                                                         *)
(* A JavaScript string is a sequence of tokens.  A token is one of the     *)
(* characters the code inspects (space, newline, colon, grave accent) or a *)
(* word: a non-empty run of any other characters, which no operation of    *)
(* the component splits.  "Analysis failed" is <<"Analysis"," ","failed">>.*)
(* A JavaScript value is a record [t |-> its typeof/null tag, s |-> the    *)
(* token sequence of a string, <<>> otherwise].                            *)
(***************************************************************************)
EXTENDS Integers, Sequences, FiniteSets, TLC

VARIABLES
    username,         \* useState("")    line 69: the input field's text
    loading,          \* useState(false) line 70
    error,            \* useState("")    line 71
    logs,             \* useState([])    line 72: sequence of [n, message]
    githubData,       \* useState(null)  line 73
    aiInsights,       \* useState(null)  line 74
    numericInsights,  \* useState(null)  line 75
    run,              \* the invocations of handleAnalyze: locals and position
    overlapped,       \* history: handleAnalyze was invoked with a run in flight
    entry,            \* argument of sanitizeLogEntry (SpecSanitize)
    sanitized,        \* its result, [done, value]
    actions           \* value of the derivedCareerActions memo, [done, value]

vars == <<username, loading, error, logs, githubData, aiInsights,
          numericInsights, run, overlapped, entry, sanitized, actions>>

orchVars == <<username, loading, error, logs, githubData, aiInsights,
              numericInsights, run, overlapped>>

pureVars == <<entry, sanitized, actions>>

----------------------------------------------------------------------------
(* Bounds of the model *)

MaxRuns == 2
MaxPieces == 5
MaxSkills == 5
TickMs == 30000

(* Program constants *)

PROFILE_TIMEOUT == 120000
AI_TIMEOUT == 150000
ScoreThreshold == 50
MaxActions == 4

----------------------------------------------------------------------------
(* Strings and values *)

SP == " "
NL == "\n"
COLON == ":"
\* the grave accent U+0060, which a TLA+ string literal cannot hold
BACKTICK == "<grave>"
Whitespace == {SP, NL}
EMPTY == <<>>

RECURSIVE Words(_)
Words(ws) ==
    IF Len(ws) = 0 THEN <<>>
    ELSE IF Len(ws) = 1 THEN <<ws[1]>>
    ELSE <<ws[1], SP>> \o Words(Tail(ws))

Str(s) == [t |-> "string", s |-> s]
Undefined == [t |-> "undefined", s |-> <<>>]
Null == [t |-> "null", s |-> <<>>]
Num == [t |-> "number", s |-> <<>>]
Obj == [t |-> "object", s |-> <<>>]

RECURSIVE TrimStart(_)
TrimStart(s) ==
    IF Len(s) > 0 /\ s[1] \in Whitespace THEN TrimStart(Tail(s)) ELSE s

RECURSIVE TrimEnd(_)
TrimEnd(s) ==
    IF Len(s) > 0 /\ s[Len(s)] \in Whitespace
    THEN TrimEnd(SubSeq(s, 1, Len(s) - 1))
    ELSE s

\* String.prototype.trim
Trim(s) == TrimEnd(TrimStart(s))

\* String.prototype.indexOf for a one-character needle: 0-based, -1 if absent
IndexOf(s, c) ==
    IF \E i \in 1..Len(s) : s[i] = c
    THEN (CHOOSE i \in 1..Len(s) : s[i] = c /\ \A j \in 1..(i - 1) : s[j] # c) - 1
    ELSE -1

\* slice(from, to) of strings and arrays: 0-based, to exclusive and clamped to
\* the length
Slice(s, from, to) == SubSeq(s, from + 1, IF to < Len(s) THEN to ELSE Len(s))

FenceAt(s, i) ==
    /\ i >= 1
    /\ i + 2 <= Len(s)
    /\ s[i] = BACKTICK /\ s[i + 1] = BACKTICK /\ s[i + 2] = BACKTICK

\* entry.replace(/FENCE[\s\S]*?FENCE/g, "") with FENCE three grave accents:
\* leftmost match, shortest body, repeated on the text after each match
RECURSIVE RemoveCodeBlocks(_)
RemoveCodeBlocks(s) ==
    IF \E i \in 1..Len(s) : FenceAt(s, i) /\ \E j \in (i + 3)..Len(s) : FenceAt(s, j)
    THEN LET i == CHOOSE a \in 1..Len(s) :
                    /\ FenceAt(s, a)
                    /\ \A b \in 1..(a - 1) : ~FenceAt(s, b)
             j == CHOOSE a \in (i + 3)..Len(s) :
                    /\ FenceAt(s, a)
                    /\ \A b \in (i + 3)..(a - 1) : ~FenceAt(s, b)
         IN  SubSeq(s, 1, i - 1) \o RemoveCodeBlocks(SubSeq(s, j + 3, Len(s)))
    ELSE s

\* trimmed.replace(/\s+/g, " ")
RECURSIVE CollapseWhitespace(_)
CollapseWhitespace(s) ==
    IF Len(s) = 0 THEN <<>>
    ELSE IF s[1] \in Whitespace
         THEN <<SP>> \o CollapseWhitespace(TrimStart(s))
         ELSE <<s[1]>> \o CollapseWhitespace(Tail(s))

\* a plausible slip: a colon at index 0 is not seen
TruncateAtColonPositive(withoutCodeBlocks) ==
    LET colonIndex == IndexOf(withoutCodeBlocks, COLON)
    IN  IF colonIndex > 0
        THEN Slice(withoutCodeBlocks, 0, colonIndex)
        ELSE withoutCodeBlocks

\* colonIndex > -1 ? withoutCodeBlocks.slice(0, colonIndex) : withoutCodeBlocks
TruncateAtColon(withoutCodeBlocks) ==
    LET colonIndex == IndexOf(withoutCodeBlocks, COLON)
    IN  IF colonIndex > -1
        THEN Slice(withoutCodeBlocks, 0, colonIndex)
        ELSE withoutCodeBlocks

sanitizeLogEntry(e) ==
    IF e.t # "string" THEN EMPTY
    ELSE LET withoutCodeBlocks == RemoveCodeBlocks(e.s)
             trimmed == TruncateAtColon(withoutCodeBlocks)
         IN  Trim(CollapseWhitespace(trimmed))

----------------------------------------------------------------------------
(* derivedCareerActions *)

SkillNames == <<"Go", "Rust", "Python", "C", "Java", "Kotlin", "Swift", "Ruby">>

\* the template literal of line 199
Suggestion(skill, score) ==
    <<skill>> \o <<SP>> \o
    Words(<<"skills", "are", "at", ToString(score) \o ".", "Focus", "on",
            "targeted", "projects", "or", "courses", "to", "lift", "this",
            "metric.">>)

\* a plausible slip: <= instead of <
BelowOrAtThreshold(score) == score <= ScoreThreshold

\* score < 50, line 197
BelowThreshold(score) == score < ScoreThreshold

\* Object.entries(skills).forEach(...): push in iteration order
RECURSIVE PushActions(_, _)
PushActions(entries, acc) ==
    IF Len(entries) = 0 THEN acc
    ELSE LET skill == entries[1][1]
             score == entries[1][2]
         IN  PushActions(Tail(entries),
                         IF BelowThreshold(score)
                         THEN Append(acc, Suggestion(skill, score))
                         ELSE acc)

\* numericInsights: [t, hasSkills, skills]; skills is the mapping's entries
\* <<skill, score>> in iteration order
derivedCareerActions(ni) ==
    IF ni.t # "object" \/ ~ni.hasSkills THEN <<>>
    ELSE LET pushed == PushActions(ni.skills, <<>>)
         IN  Slice(pushed, 0, MaxActions)

NoInsights == [t |-> "null", hasSkills |-> FALSE, skills |-> <<>>]
InsightsWithoutSkills == [t |-> "object", hasSkills |-> FALSE, skills |-> <<>>]
InsightsWith(skills) == [t |-> "object", hasSkills |-> TRUE, skills |-> skills]

----------------------------------------------------------------------------
(* Messages *)

LOG_KICKSTART == Words(<<"Kickstarting", "GitHub", "profile", "analysis">>)
LOG_REQUESTING == Words(<<"Requesting", "repository", "intelligence", "from", "backend">>)
LOG_RECEIVED == Words(<<"Repository", "summary", "received">>)
LOG_SENDING == Words(<<"Sending", "profile", "summary", "to", "AI", "pipeline">>)
LOG_COMPLETED == Words(<<"AI", "pipeline", "completed", "successfully">>)
LOG_FAILED == Words(<<"Analysis", "failed">>)

ERR_EMPTY_USERNAME == Words(<<"Username", "cannot", "be", "empty">>)
ERR_PROFILE_FALLBACK == Words(<<"Failed", "to", "fetch", "GitHub", "profile", "data">>)
ERR_NOT_FOUND_SHORT == Words(<<"GitHub", "user", "not", "found.">>)
ERR_NOT_FOUND ==
    Words(<<"GitHub", "user", "not", "found.", "Please", "check", "the", "username.">>)
ERR_RATE_LIMIT ==
    Words(<<"GitHub", "API", "rate", "limit", "exceeded.", "Please", "try", "again",
            "later.">>)
ERR_AI_FALLBACK == Words(<<"AI", "analysis", "failed">>)
ERR_TIMEOUT == Words(<<"Request", "timed", "out.", "Please", "try", "again.">>)
ERR_GENERIC == Words(<<"Something", "went", "wrong.", "Try", "again.">>)

----------------------------------------------------------------------------
(* Responses.  A body is what response.json() meets: text that does not    *)
(* parse, the JSON value null, or a JSON object with the fields the code   *)
(* reads.                                                                  *)

NumericUndefined == [t |-> "undefined", hasSkills |-> FALSE, skills |-> <<>>]
NoLogs == [t |-> "undefined", items |-> <<>>]
LogsNotArray == [t |-> "string", items |-> <<>>]
LogsArray(items) == [t |-> "array", items |-> items]

Body(kind, err, payload, text, numeric, lg) ==
    [kind |-> kind, error |-> err, payload |-> payload, text_analysis |-> text,
     numeric_analysis |-> numeric, logs |-> lg]

NoBody == Body("none", Undefined, "", "undefined", NumericUndefined, NoLogs)
Unparseable == Body("unparseable", Undefined, "", "undefined", NumericUndefined, NoLogs)
JsonNull == Body("null", Undefined, "", "undefined", NumericUndefined, NoLogs)
ErrorBody(err) == Body("object", err, "", "undefined", NumericUndefined, NoLogs)
ProfilePayload(p) == Body("object", Undefined, p, "undefined", NumericUndefined, NoLogs)
AIResult(text, numeric, lg) == Body("object", Undefined, "", text, numeric, lg)

Err(name, message) == [name |-> name, message |-> message]

ABORT_ERROR == Err("AbortError", Words(<<"The", "user", "aborted", "a", "request.">>))
JSON_SYNTAX_ERROR ==
    Err("SyntaxError", Words(<<"Unexpected", "token", "<", "in", "JSON", "at", "position", "0">>))
NULL_TYPE_ERROR ==
    Err("TypeError", Words(<<"Cannot", "read", "properties", "of", "null">>))

\* a plausible slip: the ok test is missing
OkAny(status) == TRUE

\* response.ok
Ok(status) == status >= 200 /\ status <= 299

\* getResponseError(response, fallback), lines 38-49.  response.clone() throws
\* when the body was already read, json() rejects on text that does not
\* parse; both land in the catch.
getResponseError(status, bodyUsed, body, fallback) ==
    IF /\ ~bodyUsed
       /\ body.kind = "object"
       /\ body.error.t = "string"
       /\ Trim(body.error.s) # EMPTY
    THEN body.error.s
    ELSE IF status = 404 THEN ERR_NOT_FOUND_SHORT ELSE fallback

\* lines 118-124: the message before the status overrides
ProfileBodyMessage(status, body) ==
    IF body.kind = "object"
    THEN IF body.error.t = "string" /\ body.error.s # EMPTY
         THEN body.error.s
         ELSE ERR_PROFILE_FALLBACK
    ELSE getResponseError(status, TRUE, body, ERR_PROFILE_FALLBACK)

\* a plausible slip: the 403 branch is missing
ProfileErrorMessageNo403(status, body) ==
    IF status = 404 THEN ERR_NOT_FOUND ELSE ProfileBodyMessage(status, body)

\* lines 117-132: the message of the Error thrown on a non-ok profile response
ProfileErrorMessage(status, body) ==
    IF status = 404 THEN ERR_NOT_FOUND
    ELSE IF status = 403 THEN ERR_RATE_LIMIT
    ELSE ProfileBodyMessage(status, body)

\* a plausible slip: the AbortError test is missing
CaughtMessageNoAbortTest(err) ==
    IF err.message # EMPTY THEN err.message ELSE ERR_GENERIC

\* lines 169-173: the message the catch block surfaces
CaughtMessage(err) ==
    IF err.name = "AbortError" THEN ERR_TIMEOUT
    ELSE IF err.message # EMPTY THEN err.message ELSE ERR_GENERIC

\* appendLog, lines 78-93 (the wall-clock timestamp of an entry is not modelled)
appendLog(prev, message) ==
    IF message = EMPTY THEN prev
    ELSE Append(prev, [n |-> Len(prev), message |-> message])

RECURSIVE AppendAll(_, _)
AppendAll(prev, messages) ==
    IF Len(messages) = 0 THEN prev
    ELSE AppendAll(appendLog(prev, messages[1]), Tail(messages))

RECURSIVE MapSanitize(_)
MapSanitize(items) ==
    IF Len(items) = 0 THEN <<>>
    ELSE <<sanitizeLogEntry(items[1])>> \o MapSanitize(Tail(items))

NotBlank(m) == m # EMPTY

\* a plausible slip: the raw entries are appended
SanitizedLogsRaw(lg) ==
    IF lg.t = "array" /\ Len(lg.items) > 0
    THEN [i \in 1..Len(lg.items) |-> lg.items[i].s]
    ELSE <<>>

\* lines 159-164: aiResult.logs.map(sanitizeLogEntry).filter(Boolean)
SanitizedLogs(lg) ==
    IF lg.t = "array" /\ Len(lg.items) > 0
    THEN SelectSeq(MapSanitize(lg.items), NotBlank)
    ELSE <<>>

\* aiResult.text_analysis || null
TextOrNull(text) == IF text \in {"undefined", "", "null"} THEN "null" ELSE text

\* aiResult.numeric_analysis || null
NumericOrNull(numeric) == IF numeric.t = "object" THEN numeric ELSE NoInsights

\* the timeouts handed to fetchWithTimeout
ProfileTimeoutArg == PROFILE_TIMEOUT
AITimeoutArg == AI_TIMEOUT

\* a plausible slip: the username is not trimmed
UsernameMissingNoTrim(u) == u = EMPTY

\* !username.trim(), line 96
UsernameMissing(u) == Trim(u) = EMPTY

\* a plausible slip: setLoading(false) is missing from the finally block
FinallyLoadingStuck == loading

\* the value the finally block gives loading, line 175
FinallyLoading == FALSE

\* a plausible slip: the catch block logs nothing
CatchLogsSilent(prev) == prev

\* appendLog("Analysis failed"), line 168
CatchLogs(prev) == appendLog(prev, LOG_FAILED)

\* a plausible slip: the final entry is appended before the pipeline's logs
CompletedLogsFirst(prev, lg) ==
    AppendAll(appendLog(prev, LOG_COMPLETED), SanitizedLogs(lg))

\* lines 159-165: the pipeline's logs, then the final entry
CompletedLogs(prev, lg) ==
    appendLog(AppendAll(prev, SanitizedLogs(lg)), LOG_COMPLETED)

----------------------------------------------------------------------------
(* Inputs of the environment: what the user types and what the backend and *)
(* the network answer.                                                     *)

Usernames ==
    {EMPTY, <<SP>>, <<NL, SP>>, <<"octocat">>, <<SP, "torvalds", SP>>}

ProfileStatuses == {200, 404, 403, 500}
AIStatuses == {200, 404, 500}

BackendErrors == {Undefined, Str(EMPTY), Str(<<SP>>), Str(Words(<<"Backend", "exploded">>))}

ProfileBodies ==
    {Unparseable, JsonNull, ProfilePayload("octocat-profile")}
        \cup {ErrorBody(e) : e \in BackendErrors}

SampleInsights == InsightsWith(<<<<"Go", 40>>, <<"Rust", 70>>>>)

PipelineLogs ==
    <<Str(Words(<<"Collecting", "repositories">>)),
      Str(<<"LLM", SP, SP, "call", COLON, SP, BACKTICK, BACKTICK, BACKTICK, "trace",
            BACKTICK, BACKTICK, BACKTICK>>),
      Str(<<COLON, SP, "hidden">>),
      Num,
      Str(<<NL, "Scoring", NL, "skills", SP>>)>>

EchoingLogs ==
    <<Str(<<"Analysis", SP, "failed", COLON, SP, "retrying">>),
      Str(LOG_COMPLETED)>>

AIBodies ==
    {Unparseable, JsonNull,
     ErrorBody(Str(Words(<<"Model", "overloaded">>))),
     ErrorBody(Str(<<SP>>)),
     AIResult("undefined", NumericUndefined, NoLogs),
     AIResult("T1", SampleInsights, LogsArray(PipelineLogs)),
     AIResult("T1", InsightsWithoutSkills, LogsArray(<<>>)),
     AIResult("", NoInsights, LogsNotArray),
     AIResult("T1", SampleInsights, LogsArray(EchoingLogs))}

NetworkErrors ==
    {Err("TypeError", Words(<<"Failed", "to", "fetch">>)), Err("TypeError", EMPTY)}

----------------------------------------------------------------------------
(* The runs of handleAnalyze.  A run is an invocation that passed the      *)
(* validation; its record holds the locals of the invocation and of the    *)
(* fetchWithTimeout call it is suspended in.                               *)
(*   pc          idle | fetchingProfile | readingProfile | fetchingAI |    *)
(*               readingAI | done                                          *)
(*   user        the username the closure captured                         *)
(*   timer       the delay of the pending setTimeout, 0 when none          *)
(*   elapsed     the time since the pending fetch was issued, in TickMs    *)
(*   status      the status of the response last received                  *)
(*   body        the body last read                                        *)
(*   profileData the parsed profile payload, line 135                      *)
(*   profileReqs, aiReqs   the requests the run issued to each address     *)
(*   aborted     the call controller.abort() ended: none | profile | ai    *)
(*   outcome     none | success | failed                                   *)

Slots == 1..MaxRuns

IdleRun ==
    [pc |-> "idle", user |-> EMPTY, timer |-> 0, elapsed |-> 0, status |-> 0,
     body |-> NoBody, profileData |-> NoBody, profileReqs |-> 0, aiReqs |-> 0,
     aborted |-> "none", outcome |-> "none"]

Fetching(r) == run[r].pc \in {"fetchingProfile", "fetchingAI"}
InFlight(r) == run[r].pc \in {"fetchingProfile", "readingProfile", "fetchingAI", "readingAI"}
CallKind(r) == IF run[r].pc = "fetchingProfile" THEN "profile" ELSE "ai"

OrchInit ==
    /\ username = EMPTY
    /\ loading = FALSE
    /\ error = EMPTY
    /\ logs = <<>>
    /\ githubData = JsonNull
    /\ aiInsights = "null"
    /\ numericInsights = NoInsights
    /\ run = [r \in Slots |-> IdleRun]
    /\ overlapped = FALSE

PureIdle ==
    /\ entry = Undefined
    /\ sanitized = [done |-> FALSE, value |-> EMPTY]
    /\ actions = [done |-> FALSE, value |-> <<>>]

Init == OrchInit /\ PureIdle

\* onChange={(e) => setUsername(e.target.value)}, line 266
SetUsername(u) ==
    /\ u # username
    /\ username' = u
    /\ UNCHANGED <<loading, error, logs, githubData, aiInsights, numericInsights,
                   run, overlapped, pureVars>>

\* handleAnalyze up to its first await, lines 95-115
handleAnalyze ==
    IF UsernameMissing(username)
    THEN /\ error' = ERR_EMPTY_USERNAME
         /\ UNCHANGED <<username, loading, logs, githubData, aiInsights,
                        numericInsights, run, overlapped, pureVars>>
    ELSE /\ \E r \in Slots : ~InFlight(r)
         /\ LET r == CHOOSE a \in Slots :
                        ~InFlight(a) /\ \A b \in 1..(a - 1) : InFlight(b)
            IN  run' = [run EXCEPT ![r] =
                            [IdleRun EXCEPT !.pc = "fetchingProfile",
                                            !.user = username,
                                            !.timer = ProfileTimeoutArg,
                                            !.profileReqs = 1]]
         /\ error' = EMPTY
         /\ loading' = TRUE
         /\ githubData' = JsonNull
         /\ aiInsights' = "null"
         /\ numericInsights' = NoInsights
         /\ logs' = appendLog(appendLog(<<>>, LOG_KICKSTART), LOG_REQUESTING)
         /\ overlapped' = (overlapped \/ \E q \in Slots : InFlight(q))
         /\ UNCHANGED <<username, pureVars>>

\* the trigger control: onClick={handleAnalyze} disabled={loading}, lines 270-272
ClickAnalyze ==
    /\ ~loading
    /\ handleAnalyze

\* handleAnalyze invoked directly, whatever the trigger control shows
InvokeAnalyze == handleAnalyze

\* time passes while a fetch is pending; a timer that is due fires first
Tick ==
    /\ \E r \in Slots : Fetching(r)
    /\ \A r \in Slots : Fetching(r) => run[r].elapsed * TickMs < run[r].timer
    /\ run' = [r \in Slots |->
                  IF Fetching(r) THEN [run[r] EXCEPT !.elapsed = @ + 1] ELSE run[r]]
    /\ UNCHANGED <<username, loading, error, logs, githubData, aiInsights,
                   numericInsights, overlapped, pureVars>>

\* the catch and finally blocks, lines 166-176, for run r ending as ended
Catch(r, err, ended) ==
    /\ logs' = CatchLogs(logs)
    /\ error' = CaughtMessage(err)
    /\ loading' = FinallyLoading
    /\ run' = [run EXCEPT ![r] = [ended EXCEPT !.pc = "done", !.timer = 0,
                                               !.outcome = "failed"]]
    /\ UNCHANGED <<username, githubData, aiInsights, numericInsights, overlapped,
                   pureVars>>

\* setTimeout(() => controller.abort(), timeout), line 25: the pending fetch
\* rejects with an AbortError, which handleAnalyze catches
TimerFires(r) ==
    /\ Fetching(r)
    /\ run[r].timer > 0
    /\ run[r].elapsed * TickMs >= run[r].timer
    /\ Catch(r, ABORT_ERROR, [run[r] EXCEPT !.aborted = CallKind(r)])

\* fetch rejects (the network is down, the address is refused)
FetchRejects(r, err) ==
    /\ Fetching(r)
    /\ Catch(r, err, [run[r] EXCEPT !.elapsed = 0])

\* fetch resolves with the response's status; finally clearTimeout, lines 28-35
FetchResolves(r, status) ==
    /\ Fetching(r)
    /\ status \in (IF run[r].pc = "fetchingProfile" THEN ProfileStatuses ELSE AIStatuses)
    /\ run' = [run EXCEPT ![r] =
                  [@ EXCEPT !.pc = IF run[r].pc = "fetchingProfile"
                                   THEN "readingProfile" ELSE "readingAI",
                            !.timer = 0,
                            !.elapsed = 0,
                            !.status = status]]
    /\ UNCHANGED <<username, loading, error, logs, githubData, aiInsights,
                   numericInsights, overlapped, pureVars>>

\* the body of the profile response is read: lines 117-148
ProfileBodyRead(r, body) ==
    /\ run[r].pc = "readingProfile"
    /\ LET read == [run[r] EXCEPT !.body = body]
       IN  IF ~Ok(run[r].status)
           THEN Catch(r, Err("Error", ProfileErrorMessage(run[r].status, body)), read)
           ELSE IF body.kind = "unparseable"
           THEN Catch(r, JSON_SYNTAX_ERROR, read)
           ELSE /\ githubData' = body
                /\ logs' = appendLog(appendLog(logs, LOG_RECEIVED), LOG_SENDING)
                /\ run' = [run EXCEPT ![r] =
                              [read EXCEPT !.pc = "fetchingAI",
                                           !.profileData = body,
                                           !.timer = AITimeoutArg,
                                           !.elapsed = 0,
                                           !.aiReqs = @ + 1]]
                /\ UNCHANGED <<username, loading, error, aiInsights, numericInsights,
                               overlapped, pureVars>>

\* the body of the AI response is read: lines 150-165 and the finally block
AIBodyRead(r, body) ==
    /\ run[r].pc = "readingAI"
    /\ LET read == [run[r] EXCEPT !.body = body]
       IN  IF ~Ok(run[r].status)
           THEN Catch(r, Err("Error", getResponseError(run[r].status, FALSE, body,
                                                       ERR_AI_FALLBACK)), read)
           ELSE IF body.kind = "unparseable"
           THEN Catch(r, JSON_SYNTAX_ERROR, read)
           ELSE IF body.kind = "null"
           THEN Catch(r, NULL_TYPE_ERROR, read)
           ELSE /\ aiInsights' = TextOrNull(body.text_analysis)
                /\ numericInsights' = NumericOrNull(body.numeric_analysis)
                /\ logs' = CompletedLogs(logs, body.logs)
                /\ loading' = FinallyLoading
                /\ run' = [run EXCEPT ![r] = [read EXCEPT !.pc = "done",
                                                          !.outcome = "success"]]
                /\ UNCHANGED <<username, error, githubData, overlapped, pureVars>>

\* the component driven through its controls
Next ==
    \/ ClickAnalyze
    \/ \E u \in Usernames : SetUsername(u)
    \/ Tick
    \/ \E r \in Slots : TimerFires(r)
    \/ \E r \in Slots, err \in NetworkErrors : FetchRejects(r, err)
    \/ \E r \in Slots, status \in ProfileStatuses \cup AIStatuses : FetchResolves(r, status)
    \/ \E r \in Slots, body \in ProfileBodies : ProfileBodyRead(r, body)
    \/ \E r \in Slots, body \in AIBodies : AIBodyRead(r, body)

Spec == Init /\ [][Next]_vars

\* handleAnalyze also invoked while an earlier run is in flight; the
\* environment answers from smaller sets
ReentrantUsernames == {EMPTY, <<"octocat">>}
ReentrantStatuses == {200, 500}
ReentrantProfileBodies == {Unparseable, ProfilePayload("octocat-profile")}
ReentrantAIBodies ==
    {ErrorBody(Str(Words(<<"Model", "overloaded">>))),
     AIResult("T1", SampleInsights, LogsArray(<<Str(Words(<<"Collecting", "repositories">>))>>))}
ReentrantNetworkErrors == {Err("TypeError", Words(<<"Failed", "to", "fetch">>))}

NextReentrant ==
    \/ InvokeAnalyze
    \/ \E u \in ReentrantUsernames : SetUsername(u)
    \/ Tick
    \/ \E r \in Slots : TimerFires(r)
    \/ \E r \in Slots, err \in ReentrantNetworkErrors : FetchRejects(r, err)
    \/ \E r \in Slots, status \in ReentrantStatuses : FetchResolves(r, status)
    \/ \E r \in Slots, body \in ReentrantProfileBodies : ProfileBodyRead(r, body)
    \/ \E r \in Slots, body \in ReentrantAIBodies : AIBodyRead(r, body)

SpecReentrant == Init /\ [][NextReentrant]_vars

----------------------------------------------------------------------------
(* sanitizeLogEntry applied to one entry *)

\* "build failed: FENCE stack trace FENCE extra"
BuildFailedExample ==
    <<"build", SP, "failed", COLON, SP, BACKTICK, BACKTICK, BACKTICK, "stack", SP,
      "trace", BACKTICK, BACKTICK, BACKTICK, SP, "extra">>

Pieces ==
    {<<"a">>, <<SP>>, <<NL>>, <<COLON>>, <<BACKTICK>>, <<BACKTICK, BACKTICK, BACKTICK>>}

RECURSIVE Flatten(_)
Flatten(ps) == IF Len(ps) = 0 THEN <<>> ELSE ps[1] \o Flatten(Tail(ps))

SanitizeInputs ==
    {Str(Flatten(ps)) : ps \in UNION {[1..k -> Pieces] : k \in 0..MaxPieces}}
        \cup {Str(BuildFailedExample), Undefined, Null, Num, Obj}

SanitizeInit ==
    /\ OrchInit
    /\ entry \in SanitizeInputs
    /\ sanitized = [done |-> FALSE, value |-> EMPTY]
    /\ actions = [done |-> FALSE, value |-> <<>>]

ApplySanitize ==
    /\ ~sanitized.done
    /\ sanitized' = [done |-> TRUE, value |-> sanitizeLogEntry(entry)]
    /\ UNCHANGED <<orchVars, entry, actions>>

NextSanitize == ApplySanitize

SpecSanitize == SanitizeInit /\ [][NextSanitize]_vars

----------------------------------------------------------------------------
(* derivedCareerActions recomputed from numericInsights *)

Scores == {0, 49, 50, 100}

SkillMappings ==
    UNION {{[i \in 1..k |-> <<SkillNames[i], f[i]>>] : f \in [1..k -> Scores]} :
           k \in 0..MaxSkills}

NumericInputs ==
    {NoInsights, InsightsWithoutSkills} \cup {InsightsWith(m) : m \in SkillMappings}

DeriveInit ==
    /\ username = EMPTY
    /\ loading = FALSE
    /\ error = EMPTY
    /\ logs = <<>>
    /\ githubData = JsonNull
    /\ aiInsights = "null"
    /\ numericInsights \in NumericInputs
    /\ run = [r \in Slots |-> IdleRun]
    /\ overlapped = FALSE
    /\ PureIdle

ComputeActions ==
    /\ ~actions.done
    /\ actions' = [done |-> TRUE, value |-> derivedCareerActions(numericInsights)]
    /\ UNCHANGED <<orchVars, entry, sanitized>>

NextDerive == ComputeActions

SpecDerive == DeriveInit /\ [][NextDerive]_vars

----------------------------------------------------------------------------
(* Claims about the pure functions *)

IsWhitespaceOnly(s) == \A i \in 1..Len(s) : s[i] \in Whitespace

NotWhitespace(c) == c \notin Whitespace

HasFencedBlock(s) ==
    \E i \in 1..Len(s) : FenceAt(s, i) /\ \E j \in (i + 3)..Len(s) : FenceAt(s, j)

\* the tokens of s before its first colon (all of s when it has none)
BeforeFirstColon(s) ==
    LET colons == {i \in 1..Len(s) : s[i] = COLON}
    IN  IF colons = {} THEN s
        ELSE SubSeq(s, 1, (CHOOSE i \in colons : \A j \in colons : i <= j) - 1)

Qualifying(skills) == {i \in 1..Len(skills) : skills[i][2] < 50}

\* the k-th element of a set of indices, in increasing order
Nth(S, k) == CHOOSE i \in S : Cardinality({j \in S : j <= i}) = k

\* C6: derivedCareerActions is the suggestion strings of the skills scoring
\* below 50, in mapping iteration order, cut to the first 4; its length is
\* min(4, number of skills below 50); it is empty when numericInsights or
\* its skills mapping is absent.
C6_DerivedCareerActions ==
    actions.done =>
        IF numericInsights.t # "object" \/ ~numericInsights.hasSkills
        THEN actions.value = <<>>
        ELSE LET skills == numericInsights.skills
                 q == Qualifying(skills)
                 n == IF Cardinality(q) < 4 THEN Cardinality(q) ELSE 4
             IN  /\ Len(actions.value) = n
                 /\ \A k \in 1..n :
                        actions.value[k] =
                            Suggestion(skills[Nth(q, k)][1], skills[Nth(q, k)][2])

\* five skills below 50: four actions, those of the first four skills
C6_Witness ==
    /\ actions.done
    /\ numericInsights.hasSkills
    /\ Len(numericInsights.skills) = 5
    /\ \A i \in 1..5 : numericInsights.skills[i][2] = 49
    /\ Len(actions.value) = 4
    /\ actions.value[4][1] = "C"

\* C7: sanitizeLogEntry gives the empty string for a non-string; for a string
\* its result holds no colon, no fenced code block, no leading, trailing or
\* doubled whitespace and no whitespace but single spaces; without fences in
\* the input, its words are those before the first colon; the example
\* "build failed: FENCE stack trace FENCE extra" yields "build failed".
C7_SanitizeLogEntry ==
    sanitized.done =>
        LET v == sanitized.value
        IN  IF entry.t # "string" THEN v = EMPTY
            ELSE /\ \A i \in 1..Len(v) : v[i] # COLON
                 /\ ~HasFencedBlock(v)
                 /\ \A i \in 1..Len(v) : v[i] \in Whitespace => v[i] = SP
                 /\ \A i \in 1..(Len(v) - 1) :
                        ~(v[i] \in Whitespace /\ v[i + 1] \in Whitespace)
                 /\ Len(v) > 0 => (v[1] \notin Whitespace /\ v[Len(v)] \notin Whitespace)
                 /\ (\A i \in 1..Len(entry.s) : ~FenceAt(entry.s, i)) =>
                        SelectSeq(v, NotWhitespace) =
                            SelectSeq(BeforeFirstColon(entry.s), NotWhitespace)
                 /\ entry.s = BuildFailedExample => v = <<"build", SP, "failed">>

C7_Witness ==
    /\ sanitized.done
    /\ entry = Str(BuildFailedExample)
    /\ sanitized.value = <<"build", SP, "failed">>

----------------------------------------------------------------------------
(* Claims about the orchestrator *)

Messages(lg) == [i \in 1..Len(lg) |-> lg[i].message]

IsPrefix(a, b) == Len(a) <= Len(b) /\ SubSeq(b, 1, Len(a)) = a

Count(lg, m) == Cardinality({i \in 1..Len(lg) : lg[i].message = m})

\* run r ends in this step, and a run starts in it
Ends(r) == InFlight(r) /\ run'[r].pc = "done"
Starts(r) == ~InFlight(r) /\ run'[r].pc = "fetchingProfile"

\* C1: handleAnalyze with an empty or whitespace-only username issues no
\* request and leaves error at "Username cannot be empty"; no run was ever
\* started, and so no request issued, for such a username.
C1_EmptyUsername ==
    /\ [][(handleAnalyze /\ IsWhitespaceOnly(username)) =>
            /\ error' = Words(<<"Username", "cannot", "be", "empty">>)
            /\ run' = run]_vars
    /\ [](\A r \in Slots :
            run[r].profileReqs + run[r].aiReqs > 0 => ~IsWhitespaceOnly(run[r].user))

C1_Witness ==
    /\ username = <<NL, SP>>
    /\ error = ERR_EMPTY_USERNAME
    /\ \A r \in Slots : run[r].pc = "idle" /\ run[r].profileReqs + run[r].aiReqs = 0

\* C2: a profile response with status 404 or 403 surfaces the status's own
\* message whatever its body holds, and the run ends without an AI request.
C2_ProfileStatusMessages ==
    [][\A r \in Slots :
        (run[r].pc = "readingProfile" /\ run[r].status \in {404, 403}
            /\ run'[r] # run[r]) =>
            /\ run[r].status = 404 => error' = ERR_NOT_FOUND
            /\ run[r].status = 403 => error' = ERR_RATE_LIMIT
            /\ run'[r].pc = "done"
            /\ run'[r].outcome = "failed"
            /\ run'[r].aiReqs = 0]_vars

C2_Witness ==
    \E r \in Slots :
        /\ run[r].pc = "done"
        /\ run[r].status = 403
        /\ run[r].body = ErrorBody(Str(Words(<<"Backend", "exploded">>)))
        /\ error = ERR_RATE_LIMIT
        /\ run[r].aiReqs = 0

\* the timeout each call is configured with
ConfiguredTimeout(kind) == IF kind = "profile" THEN 120000 ELSE 150000

\* C3: a pending call carries its configured timeout (profile 120 s, AI
\* 150 s) and never stays pending past it; when the timeout elapses the
\* request is aborted, the run ends, and the error is "Request timed out.
\* Please try again."; a call is aborted only once its timeout has elapsed.
C3_Timeout ==
    /\ [](\A r \in Slots : Fetching(r) =>
            /\ run[r].timer = ConfiguredTimeout(CallKind(r))
            /\ (run[r].elapsed - 1) * TickMs < ConfiguredTimeout(CallKind(r)))
    /\ [][\A r \in Slots :
            (Fetching(r) /\ run'[r].aborted # "none") =>
                /\ run'[r].aborted = CallKind(r)
                /\ run[r].elapsed * TickMs >= ConfiguredTimeout(CallKind(r))
                /\ run'[r].pc = "done"
                /\ error' = ERR_TIMEOUT
                /\ ~loading']_vars

C3_Witness ==
    \E r \in Slots :
        /\ run[r].pc = "done"
        /\ run[r].aborted = "ai"
        /\ run[r].elapsed * TickMs >= 150000
        /\ error = ERR_TIMEOUT

Terminal == {LOG_COMPLETED, LOG_FAILED}

TerminalCount(lg) == Cardinality({i \in 1..Len(lg) : lg[i].message \in Terminal})

\* the pipeline's log lines that sanitize to a terminal message
Echoes(body) ==
    IF body.logs.t = "array"
    THEN Cardinality({i \in 1..Len(body.logs.items) :
                        sanitizeLogEntry(body.logs.items[i]) \in Terminal})
    ELSE 0

\* C4 as stated: loading falls exactly when a run ends, and then the log
\* holds exactly one terminal entry, the last one: "AI pipeline completed
\* successfully" once and no "Analysis failed" after a success, "Analysis
\* failed" otherwise.
C4_Original ==
    [][/\ (loading /\ ~loading') <=> (\E r \in Slots : Ends(r))
       /\ \A r \in Slots : Ends(r) =>
            /\ logs'[Len(logs')].message =
                   (IF run'[r].outcome = "success" THEN LOG_COMPLETED ELSE LOG_FAILED)
            /\ TerminalCount(logs') = 1
            /\ run'[r].outcome = "success" =>
                   (Count(logs', LOG_COMPLETED) = 1 /\ Count(logs', LOG_FAILED) = 0)]_vars

\* C4 amended: loading falls exactly when a run ends, and the run that ends
\* has appended exactly one terminal entry, as the last entry: the log then
\* holds one terminal message more than the pipeline's own log lines that
\* sanitize to one (none when the run failed).
C4_OneTerminalEntry ==
    [][/\ (loading /\ ~loading') <=> (\E r \in Slots : Ends(r))
       /\ \A r \in Slots : Ends(r) =>
            /\ logs'[Len(logs')].message =
                   (IF run'[r].outcome = "success" THEN LOG_COMPLETED ELSE LOG_FAILED)
            /\ TerminalCount(logs') =
                   1 + (IF run'[r].outcome = "success" THEN Echoes(run'[r].body) ELSE 0)
            /\ (run'[r].outcome = "success" /\ Echoes(run'[r].body) = 0) =>
                   (Count(logs', LOG_COMPLETED) = 1 /\ Count(logs', LOG_FAILED) = 0)]_vars

C4_Witness ==
    \E r \in Slots :
        /\ run[r].pc = "done"
        /\ run[r].outcome = "success"
        /\ run[r].body = AIResult("T1", SampleInsights, LogsArray(PipelineLogs))
        /\ ~loading
        /\ logs[Len(logs)].message = LOG_COMPLETED
        /\ TerminalCount(logs) = 1

\* a step that sets a new error message
EntersError == error' # EMPTY /\ error' # error

\* C5 as stated: every transition into the error state appends "Analysis
\* failed" to the log.
C5_Original ==
    [][EntersError => Messages(logs') = Append(Messages(logs), LOG_FAILED)]_vars

\* C5 amended: a transition into the error state from the profile fetch or
\* the AI fetch appends "Analysis failed"; the validation failure sets
\* "Username cannot be empty" and leaves the log as it is.
C5_FailuresLogged ==
    [][EntersError =>
        IF run' = run
        THEN error' = ERR_EMPTY_USERNAME /\ logs' = logs
        ELSE /\ \E r \in Slots : Ends(r) /\ run'[r].outcome = "failed"
             /\ Messages(logs') = Append(Messages(logs), LOG_FAILED)]_vars

C5_Witness ==
    \E r \in Slots :
        /\ run[r].pc = "done"
        /\ run[r].outcome = "failed"
        /\ run[r].aiReqs = 1
        /\ error = Words(<<"Model", "overloaded">>)
        /\ logs[Len(logs)].message = LOG_FAILED

\* C8 as stated: loading is true exactly while some run is in flight.
C8_Original == loading <=> (\E r \in Slots : InFlight(r))

\* C8 amended: loading is false whenever no run is in flight, and as long as
\* no handleAnalyze invocation was made while an earlier run was in flight,
\* loading is true exactly while a run is in flight.
C8_Loading ==
    /\ (~\E r \in Slots : InFlight(r)) => ~loading
    /\ ~overlapped => (loading <=> (\E r \in Slots : InFlight(r)))

C8_Witness ==
    /\ ~overlapped
    /\ loading
    /\ \E r \in Slots : run[r].pc = "fetchingAI" /\ run[r].elapsed > 0

\* C9: a run issues at most one profile request and at most one AI request;
\* the AI request is issued in the step that read a parsed body from a
\* profile response of success status and stored it as githubData; a run
\* that has not got that far, or failed at the profile call, has issued none.
C9_SequentialSingleAttempt ==
    /\ [](\A r \in Slots :
            /\ run[r].profileReqs <= 1 /\ run[r].aiReqs <= 1
            /\ run[r].aiReqs > 0 =>
                   (run[r].profileReqs = 1 /\ run[r].profileData.kind \in {"object", "null"})
            /\ run[r].pc \in {"fetchingProfile", "readingProfile"} => run[r].aiReqs = 0
            /\ run[r].pc = "fetchingAI" => githubData = run[r].profileData)
    /\ [][\A r \in Slots :
            /\ run'[r].aiReqs > run[r].aiReqs =>
                /\ run[r].pc = "readingProfile"
                /\ run[r].status >= 200 /\ run[r].status <= 299
                /\ run'[r].pc = "fetchingAI"
                /\ run'[r].profileData = run'[r].body
                /\ githubData' = run'[r].profileData
            /\ (run[r].pc \in {"fetchingProfile", "readingProfile"} /\ run'[r].pc = "done") =>
                run'[r].aiReqs = 0]_vars

C9_Witness ==
    \E r \in Slots :
        /\ run[r].pc = "fetchingAI"
        /\ run[r].profileReqs = 1
        /\ run[r].aiReqs = 1
        /\ githubData = ProfilePayload("octocat-profile")

\* the entries of a logs array whose sanitized form is not blank, sanitized
KeptLogs(lg) ==
    IF lg.t = "array"
    THEN LET kept == {i \in 1..Len(lg.items) : sanitizeLogEntry(lg.items[i]) # EMPTY}
         IN  [k \in 1..Cardinality(kept) |-> sanitizeLogEntry(lg.items[Nth(kept, k)])]
    ELSE <<>>

\* C10: a successful AI response appends, after "Sending profile summary to
\* AI pipeline", the sanitized non-blank entries of its logs array in array
\* order and then "AI pipeline completed successfully"; in a step that
\* starts no run the log only grows at its end.
C10_PipelineLogs ==
    [][/\ \A r \in Slots :
            (Ends(r) /\ run'[r].outcome = "success") =>
                /\ logs[Len(logs)].message = LOG_SENDING
                /\ Messages(logs') =
                       Messages(logs) \o KeptLogs(run'[r].body.logs) \o <<LOG_COMPLETED>>
       /\ (~\E r \in Slots : Starts(r)) => IsPrefix(logs, logs')]_vars

C10_Witness ==
    /\ \E r \in Slots : run[r].pc = "done" /\ run[r].outcome = "success"
    /\ Messages(logs) =
        <<LOG_KICKSTART, LOG_REQUESTING, LOG_RECEIVED, LOG_SENDING,
          Words(<<"Collecting", "repositories">>), Words(<<"LLM", "call">>),
          Words(<<"Scoring", "skills">>), LOG_COMPLETED>>

=============================================================================
